---- MODULE Spec2Model ----
(***************************************************************************)
(* Model of the chat routing layer of Narratium.ai:                        *)
(*   - the model-test endpoint      (src/app/api/chat/route.ts, 5-87)      *)
(*   - the LLM endpoint             (src/app/api/chat/route.ts, 116-275)   *)
(*   - the workflow node LLMNode    (src/unnamed/part_000)                 *)
(* JavaScript strings are sequences of one-character strings, so that      *)
(* startsWith, endsWith, slice and trim are computed character by          *)
(* character.  Every JavaScript value is a record with a tag field t.      *)
(***************************************************************************)
EXTENDS Integers, Sequences, FiniteSets, TLC

VARIABLES
  pc,           \* where the request handler stands
  request,      \* the request being handled: endpoint and JSON body
  client,       \* the provider client built for the request
  invocations,  \* number of calls of the client's invoke for the request
  settled,      \* what the client's invoke settled with
  response,     \* the handler's HTTP response: status and JSON body
  nodePc,       \* where LLMNode._call stands
  nodeInput,    \* the input of the running _call
  nodeFetches,  \* number of fetch calls issued by the running _call
  nodeResult    \* what _call returned or threw

vars == <<pc, request, client, invocations, settled, response,
          nodePc, nodeInput, nodeFetches, nodeResult>>

handlerVars == <<pc, request, client, invocations, settled, response>>

nodeVars == <<nodePc, nodeInput, nodeFetches, nodeResult>>

(***************************************************************************)
(* Bounds                                                                  *)
(***************************************************************************)
\* a base URL sent to the test endpoint is the concatenation of at most
\* MaxParts chunks
MaxParts == 3

\* a base URL in the config of an LLM request has at most MaxConfigParts chunks
MaxConfigParts == 2

(***************************************************************************)
(* JavaScript values                                                       *)
(***************************************************************************)
Undef == [t |-> "undefined"]

JsNull == [t |-> "null"]

Str(s) == [t |-> "string", s |-> s]

\* truthiness of undefined, null and strings
Falsy(v) == \/ v.t \in {"undefined", "null"}
            \/ (v.t = "string" /\ v.s = <<>>)

\* an Error's message: a fixed text followed by an interpolated argument
Msg(text) == [text |-> text, arg |-> <<>>]

MsgArg(text, arg) == [text |-> text, arg |-> arg]

NoMessage == Msg("")

\* the catch clause sends error.message as it is, without fallback
MessageOr_NoFallback(m, fallback) == m

\* error.message || fallback
MessageOr(m, fallback) == IF m = NoMessage THEN Msg(fallback) ELSE m

\* String(v) for undefined, null and strings, as in a template literal
ToText(v) ==
  CASE v.t = "undefined" -> <<"u","n","d","e","f","i","n","e","d">>
    [] v.t = "null"      -> <<"n","u","l","l">>
    [] OTHER             -> v.s

(***************************************************************************)
(* String methods                                                          *)
(***************************************************************************)
StartsWith(s, p) == Len(s) >= Len(p) /\ SubSeq(s, 1, Len(p)) = p

EndsWith(s, p) == Len(s) >= Len(p) /\ SubSeq(s, Len(s) - Len(p) + 1, Len(s)) = p

\* s.slice(0, -1)
SliceDropLast(s) == SubSeq(s, 1, Len(s) - 1)

RECURSIVE TrimStart(_)
TrimStart(s) == IF s # <<>> /\ Head(s) = " " THEN TrimStart(Tail(s)) ELSE s

RECURSIVE TrimEnd(_)
TrimEnd(s) == IF s # <<>> /\ s[Len(s)] = " " THEN TrimEnd(SliceDropLast(s)) ELSE s

Trim(s) == TrimEnd(TrimStart(s))

(***************************************************************************)
(* Texts the requests are built from                                       *)
(***************************************************************************)
HTTP == <<"h","t","t","p",":","/","/">>

HTTPS == <<"h","t","t","p","s",":","/","/">>

LOCALHOST == <<"l","o","c","a","l","h","o","s","t",":">>

PORT == <<"1","1","4","3","4">>

SLASH == <<"/">>

SPACE == <<" ">>

OPENAI == <<"o","p","e","n","a","i">>

OLLAMA == <<"o","l","l","a","m","a">>

DEFAULT_OLLAMA_URL == HTTP \o <<"l","o","c","a","l","h","o","s","t">> \o <<":">> \o PORT

Chunks == {HTTP, HTTPS, LOCALHOST, PORT, SLASH, SPACE}

RECURSIVE Concat(_)
Concat(parts) == IF parts = <<>> THEN <<>> ELSE Head(parts) \o Concat(Tail(parts))

\* the texts made of at most n chunks (the empty string included)
Texts(n) == { Concat(p) : p \in UNION { [1..k -> Chunks] : k \in 0..n } }

BaseUrlValues == {Undef} \cup { Str(u) : u \in Texts(MaxParts) }

ConfigBaseUrlValues == {Undef} \cup { Str(u) : u \in Texts(MaxConfigParts) }

LlmTypeValues == {Undef, Str(OPENAI), Str(OLLAMA), Str(<<"x">>)}

ModelValues == {Undef, Str(<<>>), Str(<<" ">>), Str(<<"m">>)}

MessageValues == {Undef, Str(<<>>), Str(<<"s">>)}

ContentValues == {Undef, Str(<<>>), Str(<<" ">>), Str(<<" ","h","i">>)}

ThrownMessages == {NoMessage, Msg("provider failure")}

(***************************************************************************)
(* Requests, clients, responses                                            *)
(***************************************************************************)
\* request.json() rejects on a body that is not JSON
Malformed == [t |-> "malformed"]

NoRequest == [endpoint |-> "none", json |-> Undef]

NoClient == [kind |-> "none"]

NoResponse == [status |-> 0]

NoOutcome == [t |-> "none"]

TestBodies ==
  { [t |-> "object", llmType |-> l, baseUrl |-> b, model |-> m] :
      l \in LlmTypeValues, b \in BaseUrlValues, m \in ModelValues }

TestRequests == {Malformed, JsNull} \cup TestBodies

\* NextResponse.json(body, {status}): JSON.stringify drops undefined members
Jsonify(o) == [f \in {g \in DOMAIN o : g = "success" \/ o[g] # Undef} |-> o[f]]

Reply(status, body) == [status |-> status, body |-> Jsonify(body)]

\* request.json() rejects on malformed JSON; destructuring null throws
BodyThrows(json) == json \in {Malformed, JsNull}

BodyError(json) ==
  IF json = Malformed
    THEN Msg("Unexpected token in JSON")
    ELSE Msg("Cannot destructure property of 'body' as it is null.")

ConstructorError == Msg("client construction failure")

(***************************************************************************)
(* Test endpoint: POST, route.ts 5-87                                      *)
(***************************************************************************)
\* the last rule tests "https://" only
PrefixScheme_HttpsOnly(u) ==
  IF u = LOCALHOST \o PORT \/ u = PORT
    THEN DEFAULT_OLLAMA_URL
  ELSE IF StartsWith(u, LOCALHOST) /\ ~StartsWith(u, HTTP)
    THEN HTTP \o u
  ELSE IF ~StartsWith(u, HTTPS)
    THEN HTTP \o u
  ELSE u

\* lines 21-27: the else-if chain that puts a scheme in front
PrefixScheme(u) ==
  IF u = LOCALHOST \o PORT \/ u = PORT
    THEN DEFAULT_OLLAMA_URL
  ELSE IF StartsWith(u, LOCALHOST) /\ ~StartsWith(u, HTTP)
    THEN HTTP \o u
  ELSE IF ~StartsWith(u, HTTP) /\ ~StartsWith(u, HTTPS)
    THEN HTTP \o u
  ELSE u

\* every trailing slash is removed, not one
RECURSIVE StripTrailingSlash_All(_)
StripTrailingSlash_All(u) ==
  IF EndsWith(u, SLASH) THEN StripTrailingSlash_All(SliceDropLast(u)) ELSE u

\* lines 30-32
StripTrailingSlash(u) == IF EndsWith(u, SLASH) THEN SliceDropLast(u) ELSE u

\* lines 18-33, for llmType "ollama"
NormalizeBaseUrl(u) == StripTrailingSlash(PrefixScheme(u))

\* lines 10-15
TestMissing(body) ==
  Falsy(body.llmType) \/ Falsy(body.baseUrl) \/ Falsy(body.model)

\* lines 36-49
TestClient(body) ==
  IF body.llmType = Str(OPENAI)
    THEN [kind |-> "ChatOpenAI", model |-> body.model, baseUrl |-> body.baseUrl]
    ELSE [kind |-> "ChatOllama", model |-> body.model,
          baseUrl |-> IF body.llmType = Str(OLLAMA)
                        THEN Str(NormalizeBaseUrl(body.baseUrl.s))
                        ELSE body.baseUrl]

\* lines 80-86
TestCatch(m) ==
  Reply(500, [success |-> FALSE, error |-> MessageOr(m, "Failed to test model")])

\* lines 6-63, up to the call of chatModel.invoke
TestPrepare(json, ctorThrows) ==
  IF BodyThrows(json)
    THEN [next |-> "respond", client |-> NoClient, response |-> TestCatch(BodyError(json))]
  ELSE IF TestMissing(json)
    THEN [next |-> "respond", client |-> NoClient,
          response |-> Reply(400, [success |-> FALSE,
                                   error |-> Msg("Missing required parameters")])]
  ELSE IF ctorThrows
    THEN [next |-> "respond", client |-> NoClient, response |-> TestCatch(ConstructorError)]
  ELSE [next |-> "invoke", client |-> TestClient(json), response |-> NoResponse]

\* what chatModel.invoke settles with
TestOutcomes ==
  { [t |-> "throw", message |-> m] : m \in ThrownMessages }
    \cup { [t |-> "ok", content |-> c] : c \in ContentValues }

\* lines 63-86
TestFinish(outcome) ==
  IF outcome.t = "throw"
    THEN TestCatch(outcome.message)
  ELSE IF outcome.content.t # "string"
    THEN TestCatch(Msg("Cannot read properties of undefined (reading 'toString')"))
  ELSE LET responseContent == Trim(outcome.content.s) IN
       IF responseContent # <<>> /\ Len(responseContent) > 0
         THEN Reply(200, [success |-> TRUE, message |-> Msg("Model test successful"),
                          response |-> Str(responseContent)])
         ELSE Reply(500, [success |-> FALSE,
                          error |-> Msg("Empty or invalid response from model")])

TestPOST_Request ==
  /\ pc = "idle"
  /\ nodePc = "idle"
  /\ pc' = "test_json"
  /\ \E json \in TestRequests : request' = [endpoint |-> "test", json |-> json]
  /\ client' = NoClient
  /\ invocations' = 0
  /\ settled' = NoOutcome
  /\ response' = NoResponse
  /\ UNCHANGED nodeVars

TestPOST_Body ==
  /\ pc = "test_json"
  /\ \E ctorThrows \in BOOLEAN :
       LET p == TestPrepare(request.json, ctorThrows) IN
       /\ pc' = IF p.next = "invoke" THEN "test_invoke" ELSE "responded"
       /\ client' = p.client
       /\ invocations' = IF p.next = "invoke" THEN 1 ELSE 0
       /\ response' = p.response
  /\ UNCHANGED <<request, settled>>
  /\ UNCHANGED nodeVars

TestPOST_Reply ==
  /\ pc = "test_invoke"
  /\ pc' = "responded"
  /\ \E outcome \in TestOutcomes :
       /\ settled' = outcome
       /\ response' = TestFinish(outcome)
  /\ UNCHANGED <<request, client, invocations>>
  /\ UNCHANGED nodeVars

(***************************************************************************)
(* LLM endpoint: createLLM, invokeLLM, POST, route.ts 116-275              *)
(***************************************************************************)
Configs ==
  { [t |-> "object", modelName |-> m, baseUrl |-> b, llmType |-> l] :
      m \in ModelValues, b \in ConfigBaseUrlValues, l \in LlmTypeValues }

LlmBodies ==
  { [t |-> "object", systemMessage |-> s, userMessage |-> u, config |-> c] :
      s \in MessageValues, u \in MessageValues, c \in {Undef} \cup Configs }

LlmRequests == {Malformed, JsNull} \cup LlmBodies

\* v?.trim() || dflt
TrimOr(v, dflt) ==
  IF v.t = "string" /\ Trim(v.s) # <<>> THEN Str(Trim(v.s)) ELSE dflt

\* the model name is passed on as received
SafeModel_Raw(config) == config.modelName

\* line 117
SafeModel(config) == TrimOr(config.modelName, Str(<<>>))

\* lines 116-162; the constructors of the client library may throw
createLLM(config, ctorThrows) ==
  LET safeModel == SafeModel(config) IN
  IF config.llmType = Str(OPENAI)
    THEN IF ctorThrows
           THEN [ok |-> FALSE, error |-> ConstructorError]
           ELSE [ok |-> TRUE,
                 llm |-> [kind |-> "ChatOpenAI", model |-> safeModel,
                          baseUrl |-> TrimOr(config.baseUrl, Undef)]]
  ELSE IF config.llmType = Str(OLLAMA)
    THEN IF ctorThrows
           THEN [ok |-> FALSE, error |-> ConstructorError]
           ELSE [ok |-> TRUE,
                 llm |-> [kind |-> "ChatOllama", model |-> safeModel,
                          baseUrl |-> TrimOr(config.baseUrl, Str(DEFAULT_OLLAMA_URL))]]
  ELSE [ok |-> FALSE,
        error |-> MsgArg("Unsupported LLM type: ", ToText(config.llmType))]

\* lines 252-257
LlmMissing(body) ==
  Falsy(body.systemMessage) \/ Falsy(body.userMessage) \/ Falsy(body.config)

\* lines 268-274
LlmCatch(m) ==
  Reply(500, [success |-> FALSE,
              error |-> MessageOr(m, "Failed to process LLM request")])

\* lines 247-260 and 186-197 / 226-231, up to the call of invoke
LlmPrepare(json, ctorThrows) ==
  IF BodyThrows(json)
    THEN [next |-> "respond", client |-> NoClient, response |-> LlmCatch(BodyError(json))]
  ELSE IF LlmMissing(json)
    THEN [next |-> "respond", client |-> NoClient,
          response |-> Reply(400, [success |-> FALSE,
                                   error |-> Msg("Missing required parameters")])]
  ELSE LET made == createLLM(json.config, ctorThrows) IN
       IF made.ok
         THEN [next |-> "invoke", client |-> made.llm, response |-> NoResponse]
         ELSE [next |-> "respond", client |-> NoClient, response |-> LlmCatch(made.error)]

UsageMetadataValues ==
  {Undef, [t |-> "object", input_tokens |-> 10, output_tokens |-> 5, total_tokens |-> 15]}

LegacyTokenUsageValues ==
  {Undef, [t |-> "object", promptTokens |-> 1, completionTokens |-> 2, totalTokens |-> 3]}

LegacyUsageValues ==
  {Undef, [t |-> "object", prompt_tokens |-> 7, completion_tokens |-> 8, total_tokens |-> 15]}

ResponseMetadataValues ==
  {Undef} \cup { [t |-> "object", tokenUsage |-> a, usage |-> b] :
                   a \in LegacyTokenUsageValues, b \in LegacyUsageValues }

\* what openaiLlm.invoke settles with
OpenAIOutcomes ==
  { [t |-> "throw", message |-> m] : m \in ThrownMessages }
    \cup { [t |-> "ok", content |-> c, usage_metadata |-> u, response_metadata |-> r] :
             c \in ContentValues, u \in UsageMetadataValues, r \in ResponseMetadataValues }

\* what dialogueChain.invoke settles with
ChainOutcomes ==
  { [t |-> "throw", message |-> m] : m \in ThrownMessages }
    \cup { [t |-> "ok", content |-> c] : c \in ContentValues }

\* response_metadata.usage is looked at before response_metadata.tokenUsage
ExtractTokenUsage_UsageFirst(aiMessage) ==
  IF ~Falsy(aiMessage.usage_metadata)
    THEN [t |-> "object",
          prompt_tokens |-> aiMessage.usage_metadata.input_tokens,
          completion_tokens |-> aiMessage.usage_metadata.output_tokens,
          total_tokens |-> aiMessage.usage_metadata.total_tokens]
  ELSE IF ~Falsy(aiMessage.response_metadata)
            /\ ~Falsy(aiMessage.response_metadata.usage)
    THEN aiMessage.response_metadata.usage
  ELSE IF ~Falsy(aiMessage.response_metadata)
            /\ ~Falsy(aiMessage.response_metadata.tokenUsage)
    THEN aiMessage.response_metadata.tokenUsage
  ELSE JsNull

\* lines 199-213
ExtractTokenUsage(aiMessage) ==
  IF ~Falsy(aiMessage.usage_metadata)
    THEN [t |-> "object",
          prompt_tokens |-> aiMessage.usage_metadata.input_tokens,
          completion_tokens |-> aiMessage.usage_metadata.output_tokens,
          total_tokens |-> aiMessage.usage_metadata.total_tokens]
  ELSE IF ~Falsy(aiMessage.response_metadata)
            /\ ~Falsy(aiMessage.response_metadata.tokenUsage)
    THEN aiMessage.response_metadata.tokenUsage
  ELSE IF ~Falsy(aiMessage.response_metadata)
            /\ ~Falsy(aiMessage.response_metadata.usage)
    THEN aiMessage.response_metadata.usage
  ELSE JsNull

\* lines 220-223: the result of invokeLLM on the openai branch
OpenAIResult(aiMessage) ==
  [ok |-> TRUE, response |-> aiMessage.content,
   tokenUsage |-> ExtractTokenUsage(aiMessage)]

\* lines 233-237: the result of invokeLLM on the chain branch
ChainResult(chainResponse) ==
  IF Falsy(chainResponse) \/ chainResponse.t # "string"
    THEN [ok |-> FALSE, error |-> Msg("Invalid response from LLM")]
    ELSE [ok |-> TRUE, response |-> chainResponse, tokenUsage |-> Undef]

\* lines 190-243, after invoke has settled
invokeLLM_Result(kind, outcome) ==
  IF outcome.t = "throw"
    THEN [ok |-> FALSE, error |-> outcome.message]
  ELSE IF kind = "ChatOpenAI"
    THEN OpenAIResult(outcome)
    ELSE ChainResult(outcome.content)

\* lines 260-274
LlmFinish(result) ==
  IF result.ok
    THEN Reply(200, [success |-> TRUE, response |-> result.response,
                     tokenUsage |-> result.tokenUsage])
    ELSE LlmCatch(result.error)

LlmPOST_Request ==
  /\ pc = "idle"
  /\ nodePc = "idle"
  /\ pc' = "llm_json"
  /\ \E json \in LlmRequests : request' = [endpoint |-> "llm", json |-> json]
  /\ client' = NoClient
  /\ invocations' = 0
  /\ settled' = NoOutcome
  /\ response' = NoResponse
  /\ UNCHANGED nodeVars

LlmPOST_Body ==
  /\ pc = "llm_json"
  /\ \E ctorThrows \in BOOLEAN :
       LET p == LlmPrepare(request.json, ctorThrows) IN
       /\ pc' = IF p.next = "invoke" THEN "llm_invoke" ELSE "responded"
       /\ client' = p.client
       /\ invocations' = IF p.next = "invoke" THEN 1 ELSE 0
       /\ response' = p.response
  /\ UNCHANGED <<request, settled>>
  /\ UNCHANGED nodeVars

LlmPOST_Reply ==
  /\ pc = "llm_invoke"
  /\ pc' = "responded"
  /\ \E outcome \in (IF client.kind = "ChatOpenAI" THEN OpenAIOutcomes ELSE ChainOutcomes) :
       /\ settled' = outcome
       /\ response' = LlmFinish(invokeLLM_Result(client.kind, outcome))
  /\ UNCHANGED <<request, client, invocations>>
  /\ UNCHANGED nodeVars

(***************************************************************************)
(* Workflow node: LLMNode._call, part_000 21-82                            *)
(***************************************************************************)
NodeInputs ==
  { [systemMessage |-> s, userMessage |-> u, modelName |-> m, baseUrl |-> b,
     llmType |-> l] :
      s \in MessageValues, u \in MessageValues, m \in {Undef, Str(<<"m">>)},
      b \in {Undef, Str(PORT)}, l \in {Undef, Str(OLLAMA)} }

NoInput == [systemMessage |-> Undef, userMessage |-> Undef, modelName |-> Undef,
            baseUrl |-> Undef, llmType |-> Undef]

NoResult == [t |-> "none"]

\* the user message is not checked
NodeInputError_SystemOnly(input) ==
  IF Falsy(input.systemMessage)
    THEN Msg("System message is required for LLMNode")
    ELSE NoMessage

\* lines 33-39: the message of the local error, NoMessage when there is none
NodeInputError(input) ==
  IF Falsy(input.systemMessage)
    THEN Msg("System message is required for LLMNode")
  ELSE IF Falsy(input.userMessage)
    THEN Msg("User message is required for LLMNode")
  ELSE NoMessage

\* lines 46-59: the body of the fetch, as the handler parses it
NodeRequestBody(input) ==
  [t |-> "object",
   systemMessage |-> input.systemMessage,
   userMessage |-> input.userMessage,
   config |-> [t |-> "object",
               modelName |-> input.modelName,
               baseUrl |-> input.baseUrl,
               llmType |-> IF Falsy(input.llmType) THEN Str(OPENAI) ELSE input.llmType]]

\* lines 62-81
NodeOutcome(input, data) ==
  IF data.success
    THEN [t |-> "output",
          llmResponse |-> IF "response" \in DOMAIN data THEN data.response ELSE Undef,
          systemMessage |-> input.systemMessage,
          userMessage |-> input.userMessage,
          modelName |-> input.modelName,
          llmType |-> IF Falsy(input.llmType) THEN Str(OPENAI) ELSE input.llmType]
    ELSE [t |-> "error", message |-> data.error]

\* lines 21-60: from the call of _call to the await of fetch
NodeCall ==
  /\ pc = "idle"
  /\ nodePc = "idle"
  /\ \E input \in NodeInputs :
       /\ nodeInput' = input
       /\ IF NodeInputError(input) # NoMessage
            THEN /\ nodePc' = "raised"
                 /\ nodeResult' = [t |-> "error", message |-> NodeInputError(input)]
                 /\ nodeFetches' = 0
                 /\ UNCHANGED handlerVars
            ELSE /\ nodePc' = "fetching"
                 /\ nodeResult' = NoResult
                 /\ nodeFetches' = 1
                 /\ pc' = "llm_json"
                 /\ request' = [endpoint |-> "llm", json |-> NodeRequestBody(input)]
                 /\ client' = NoClient
                 /\ invocations' = 0
                 /\ settled' = NoOutcome
                 /\ response' = NoResponse

\* lines 62-81: fetch has resolved with the handler's response
NodeResume ==
  /\ nodePc = "fetching"
  /\ pc = "responded"
  /\ LET out == NodeOutcome(nodeInput, response.body) IN
       /\ nodePc' = IF out.t = "output" THEN "returned" ELSE "raised"
       /\ nodeResult' = out
  /\ UNCHANGED <<nodeInput, nodeFetches>>
  /\ UNCHANGED handlerVars

(***************************************************************************)
(* The system                                                              *)
(***************************************************************************)
Init ==
  /\ pc = "idle"
  /\ request = NoRequest
  /\ client = NoClient
  /\ invocations = 0
  /\ settled = NoOutcome
  /\ response = NoResponse
  /\ nodePc = "idle"
  /\ nodeInput = NoInput
  /\ nodeFetches = 0
  /\ nodeResult = NoResult

Next ==
  \/ TestPOST_Request
  \/ TestPOST_Body
  \/ TestPOST_Reply
  \/ LlmPOST_Request
  \/ LlmPOST_Body
  \/ LlmPOST_Reply
  \/ NodeCall
  \/ NodeResume

Spec == Init /\ [][Next]_vars

TypeOK ==
  /\ pc \in {"idle", "test_json", "test_invoke", "llm_json", "llm_invoke", "responded"}
  /\ invocations \in 0..1
  /\ nodeFetches \in 0..1
  /\ nodePc \in {"idle", "fetching", "returned", "raised"}

(***************************************************************************)
(* Vocabulary of the properties                                            *)
(***************************************************************************)
\* the handler has passed parsing and validation of the request
Validated ==
  /\ request.endpoint \in {"test", "llm"}
  /\ pc \in {"test_invoke", "llm_invoke", "responded"}
  /\ ~BodyThrows(request.json)
  /\ IF request.endpoint = "test"
       THEN ~TestMissing(request.json)
       ELSE ~LlmMissing(request.json)

\* body[f] for a body that parsed: a body that is no object has no fields
Field(json, f) == IF json.t = "object" THEN json[f] ELSE Undef

RequiredFields ==
  IF request.endpoint = "test"
    THEN {"llmType", "baseUrl", "model"}
    ELSE {"systemMessage", "userMessage", "config"}

MissingEnvelope == [success |-> FALSE, error |-> Msg("Missing required parameters")]

FallbackText ==
  IF request.endpoint = "test"
    THEN "Failed to test model"
    ELSE "Failed to process LLM request"

ErrorEnvelope(m) == [success |-> FALSE, error |-> m]

\* a provider response without textual content
Blank(content) == content.t # "string" \/ Trim(content.s) = <<>>

(***************************************************************************)
(* C1                                                                      *)
(***************************************************************************)
\* C1: a request whose body parses and lacks (or has falsy) a required field
\* is answered 400 with {success:false, error:"Missing required parameters"}
\* and no provider client is constructed or invoked for it.
C1_Missing400 ==
  ( /\ pc = "responded"
    /\ request.endpoint \in {"test", "llm"}
    /\ request.json # Malformed
    /\ \E f \in RequiredFields : Falsy(Field(request.json, f)) )
  => /\ response = [status |-> 400, body |-> MissingEnvelope]
     /\ client = NoClient
     /\ invocations = 0

(***************************************************************************)
(* C2                                                                      *)
(***************************************************************************)
\* C2: whenever body parsing, client construction or the provider call
\* throws, the answer is 500 with success:false and the thrown message (the
\* handler's fallback text when the message is empty); every request ends
\* with a response of status 200, 400 or 500.
C2_Throw500 ==
  pc = "responded" =>
    /\ response.status \in {200, 400, 500}
    /\ BodyThrows(request.json) =>
         response = [status |-> 500, body |-> ErrorEnvelope(BodyError(request.json))]
    /\ (Validated /\ client = NoClient) =>
         /\ response.status = 500
         /\ response.body \in
              {ErrorEnvelope(ConstructorError)} \cup
              IF request.endpoint = "llm"
                THEN {ErrorEnvelope(MsgArg("Unsupported LLM type: ",
                                           ToText(request.json.config.llmType)))}
                ELSE {}
    /\ settled.t = "throw" =>
         response = [status |-> 500,
                     body |-> ErrorEnvelope(IF settled.message = NoMessage
                                              THEN Msg(FallbackText)
                                              ELSE settled.message)]

\* a provider call threw an error without message and the fallback was sent
C2_Witness ==
  /\ pc = "responded"
  /\ settled = [t |-> "throw", message |-> NoMessage]
  /\ response.status = 500
  /\ response.body.error = Msg(FallbackText)

(***************************************************************************)
(* C3                                                                      *)
(***************************************************************************)
\* C3: an LLM-endpoint invocation whose provider response has no textual
\* content is never answered with a success envelope: it is answered 500
\* with success:false, on the ChatOpenAI path and on the ChatOllama path.
C3_BlankContentFails ==
  ( /\ pc = "responded"
    /\ request.endpoint = "llm"
    /\ settled.t = "ok"
    /\ Blank(settled.content) )
  => /\ response.status = 500
     /\ response.body.success = FALSE

(***************************************************************************)
(* C4                                                                      *)
(***************************************************************************)
UnsupportedEnvelope ==
  ErrorEnvelope(MsgArg("Unsupported LLM type: ", ToText(request.json.config.llmType)))

KindRecognized(config) == config.llmType \in {Str(OPENAI), Str(OLLAMA)}

ModelEmpty(config) == config.modelName.t # "string" \/ Trim(config.modelName.s) = <<>>

C5_ResponseXorError ==
  response # NoResponse =>
    LET b == response.body IN
    IF b.success
      THEN /\ "response" \in DOMAIN b
           /\ ~Falsy(b.response)
           /\ "error" \notin DOMAIN b
      ELSE /\ "error" \in DOMAIN b
           /\ b.error # NoMessage
           /\ "response" \notin DOMAIN b

(***************************************************************************)
(* C6                                                                      *)
(***************************************************************************)
\* C6: on the ChatOllama path of the LLM endpoint the client's base URL is
\* the normalization of config.baseUrl, the URL the test endpoint would use
\* for the same raw baseUrl.
C6_LlmUrlNormalized ==
  ( /\ Validated
    /\ request.endpoint = "llm"
    /\ client.kind = "ChatOllama"
    /\ ~Falsy(request.json.config.baseUrl) )
  => client.baseUrl = Str(NormalizeBaseUrl(request.json.config.baseUrl.s))

(***************************************************************************)
(* C7, C8                                                                  *)
(***************************************************************************)
\* the test endpoint has built the ChatOllama client of an "ollama" request
TestOllamaBuilt ==
  /\ Validated
  /\ request.endpoint = "test"
  /\ request.json.llmType = Str(OLLAMA)
  /\ client.kind = "ChatOllama"

\* the statement of C7 as written: a base URL ending in "/" is normalized to
\* a URL that does not end in "/".
C7_NeverEndsInSlash ==
  ( /\ TestOllamaBuilt
    /\ EndsWith(request.json.baseUrl.s, SLASH) )
  => ~EndsWith(client.baseUrl.s, SLASH)

\* C7 (amended): for every base URL ending in "/", normalization strips
\* exactly one trailing slash: the normalized URL followed by "/" is the URL
\* with its scheme put in front, and it still ends in "/" exactly when that
\* URL ends in "//".
C7_StripsExactlyOne ==
  ( /\ TestOllamaBuilt
    /\ EndsWith(request.json.baseUrl.s, SLASH) )
  => LET raw == request.json.baseUrl.s
         prefixed == IF StartsWith(raw, HTTP) \/ StartsWith(raw, HTTPS)
                       THEN raw ELSE HTTP \o raw
     IN /\ client.baseUrl.s \o SLASH = prefixed
        /\ EndsWith(client.baseUrl.s, SLASH) <=> EndsWith(prefixed, SLASH \o SLASH)

\* a URL ending in two slashes lost one of them and kept the other
C7_Witness ==
  /\ TestOllamaBuilt
  /\ request.json.baseUrl.s = PORT \o SLASH \o SLASH
  /\ client.baseUrl.s = HTTP \o PORT \o SLASH

\* the statement of C8 as written: normalizing a normalized URL changes
\* nothing.
C8_Idempotent ==
  TestOllamaBuilt => NormalizeBaseUrl(client.baseUrl.s) = client.baseUrl.s

\* C8 (amended): normalization is idempotent on every base URL whose
\* normalized form does not end in "/"; a URL that starts with "localhost:"
\* gets "http://" put in front exactly once.
C8_IdempotentUnlessSlash ==
  TestOllamaBuilt =>
    /\ ~EndsWith(client.baseUrl.s, SLASH) =>
         NormalizeBaseUrl(client.baseUrl.s) = client.baseUrl.s
    /\ StartsWith(request.json.baseUrl.s, LOCALHOST) =>
         /\ StartsWith(client.baseUrl.s, HTTP \o LOCALHOST)
         /\ Len(client.baseUrl.s) <= Len(HTTP) + Len(request.json.baseUrl.s)

\* a scheme-less "localhost:" URL with a trailing slash was normalized, and
\* normalizing the result again gives the same URL
C8_Witness ==
  /\ TestOllamaBuilt
  /\ request.json.baseUrl.s = LOCALHOST \o PORT \o SLASH
  /\ client.baseUrl.s = HTTP \o LOCALHOST \o PORT
  /\ NormalizeBaseUrl(client.baseUrl.s) = client.baseUrl.s

(***************************************************************************)
(* C9                                                                      *)
(***************************************************************************)
\* C9: when the input of _call lacks systemMessage or userMessage, _call
\* raises its local error and no fetch is issued in that execution: the
\* request handler receives nothing.
C9_RaisesBeforeFetch ==
  ( /\ nodePc # "idle"
    /\ Falsy(nodeInput.systemMessage) \/ Falsy(nodeInput.userMessage) )
  => /\ nodePc = "raised"
     /\ nodeResult.message \in { Msg("System message is required for LLMNode"),
                                  Msg("User message is required for LLMNode") }
     /\ nodeFetches = 0
     /\ request = NoRequest
     /\ pc = "idle"

\* _call raised on an input that has a system message and no user message
C9_Witness ==
  /\ nodePc = "raised"
  /\ ~Falsy(nodeInput.systemMessage)
  /\ Falsy(nodeInput.userMessage)
  /\ nodeFetches = 0

(***************************************************************************)
(* C10                                                                     *)
(***************************************************************************)
Present(aiMessage, path) ==
  CASE path = "usage_metadata" -> ~Falsy(aiMessage.usage_metadata)
    [] path = "tokenUsage" -> /\ ~Falsy(aiMessage.response_metadata)
                              /\ ~Falsy(aiMessage.response_metadata.tokenUsage)
    [] path = "usage" -> /\ ~Falsy(aiMessage.response_metadata)
                         /\ ~Falsy(aiMessage.response_metadata.usage)

\* C10: on the ChatOpenAI path the token usage of the answer is taken from
\* usage_metadata (input/output/total mapped to prompt/completion/total),
\* else from response_metadata.tokenUsage, else from response_metadata.usage;
\* with none present the invocation still succeeds, without usage.  On the
\* ChatOllama path the answer carries no tokenUsage.
C10_UsagePriority ==
  ( /\ pc = "responded"
    /\ request.endpoint = "llm"
    /\ settled.t = "ok" )
  => IF client.kind = "ChatOpenAI"
       THEN /\ response.status = 200
            /\ response.body.success
            /\ "tokenUsage" \in DOMAIN response.body
            /\ LET usage == response.body.tokenUsage IN
                 IF Present(settled, "usage_metadata")
                   THEN /\ usage.prompt_tokens = settled.usage_metadata.input_tokens
                        /\ usage.completion_tokens = settled.usage_metadata.output_tokens
                        /\ usage.total_tokens = settled.usage_metadata.total_tokens
                 ELSE IF Present(settled, "tokenUsage")
                   THEN usage = settled.response_metadata.tokenUsage
                 ELSE IF Present(settled, "usage")
                   THEN usage = settled.response_metadata.usage
                 ELSE usage = JsNull
       ELSE "tokenUsage" \notin DOMAIN response.body

\* both legacy sources present and no usage_metadata: tokenUsage won
C10_Witness ==
  /\ pc = "responded"
  /\ request.endpoint = "llm"
  /\ client.kind = "ChatOpenAI"
  /\ settled.t = "ok"
  /\ ~Present(settled, "usage_metadata")
  /\ Present(settled, "tokenUsage")
  /\ Present(settled, "usage")
  /\ response.body.tokenUsage = settled.response_metadata.tokenUsage

====
